---------------------------- MODULE Spec2Model ----------------------------
(***************************************************************************)
(* A model of the text buffer of hecto-rust: Row (src/src/row.rs) and      *)
(* Document (src/src/document.rs).                                         *)
(*                                                                         *)
(* A string is a sequence of code points.  A code point is written as a    *)
(* short name: "a" is a letter, "m" is a combining mark (U+0301),          *)
(* "Z" is ZERO WIDTH JOINER (U+200D), "W" and "G" are pictographs          *)
(* (U+1F469, U+1F467), "CR" and "LF" are the two line-terminator code      *)
(* points, "TAB" is U+0009 and "1" is an ASCII digit.                      *)
(*                                                                         *)
(* The per-grapheme display annotations (Row::highlighting) and the file   *)
(* type are display-only, their code is not part of src/, and no editing   *)
(* operation reads them: they are left out of the state.                   *)
(***************************************************************************)
EXTENDS Integers, Sequences, FiniteSets, TLC

VARIABLES
    r,          \* SpecRow: the two Row objects, r[1] and r[2] (<<>> elsewhere)
    rows,       \* Document::rows, a sequence of Row
    file_name,  \* Document::file_name, <<>> (None) or <<name>> (Some)
    dirty,      \* Document::dirty
    disk,       \* the file at the document's path: <<>> (absent) or <<contents>>
    call        \* the last call: its name, arguments, result and the state before it

vars == <<r, rows, file_name, dirty, disk, call>>

---------------------------------------------------------------------------
(* Bounds of the model.                                                    *)

\* code points held by the two Row objects of SpecRow together
MaxLen == 4

\* SpecEdit: rows of the edited document and code points in all of them together
EditMaxRows == 3
EditMaxChars == 3

\* Spec: rows of the document and code points in all of them together,
\* and code points of the file that exists before the first save
MaxRows == 2
MaxChars == 2
MaxFile == 2

\* SpecFind: rows of the searched document, code points in all of them
\* together, and code points of the query
FindMaxRows == 2
FindMaxChars == 4
FindMaxQuery == 2

\* SpecRender: code points of the rendered row
RenderMaxLen == 3

---------------------------------------------------------------------------
(* Unicode text: UTF-8 widths and extended grapheme clusters, as the       *)
(* unicode_segmentation crate's graphemes(true) computes them.             *)

\* Grapheme_Cluster_Break property of a code point
GraphemeCat(c) ==
    CASE c = "CR" -> "CR"
      [] c = "LF" -> "LF"
      [] c = "TAB" -> "Control"
      [] c = "m" -> "Extend"
      [] c = "Z" -> "ZWJ"
      [] c \in {"W", "G"} -> "ExtPict"
      [] OTHER -> "Other"

\* number of bytes of the UTF-8 encoding of a code point
Utf8Width(c) ==
    CASE c = "m" -> 2
      [] c = "Z" -> 3
      [] c \in {"W", "G"} -> 4
      [] OTHER -> 1

IsControl(c) == GraphemeCat(c) \in {"CR", "LF", "Control"}

\* TRUE when there is no cluster boundary between s[i] and s[i+1]
\* (UAX #29 rules GB3, GB4, GB5, GB9, GB11, GB999)
NoBreak(s, i) ==
    LET a == s[i]
        b == s[i + 1]
    IN  IF GraphemeCat(a) = "CR" /\ GraphemeCat(b) = "LF" THEN TRUE
        ELSE IF IsControl(a) \/ IsControl(b) THEN FALSE
        ELSE IF GraphemeCat(b) \in {"Extend", "ZWJ"} THEN TRUE
        ELSE IF GraphemeCat(a) = "ZWJ" /\ GraphemeCat(b) = "ExtPict"
             THEN \E j \in 1..(i - 1) :
                      /\ GraphemeCat(s[j]) = "ExtPict"
                      /\ \A k \in (j + 1)..(i - 1) : GraphemeCat(s[k]) = "Extend"
        ELSE FALSE

\* the scan of graphemes(true): code point s[i] either extends the current
\* cluster `cur` or closes it and starts the next one
RECURSIVE GraphemesFrom(_, _, _, _)
GraphemesFrom(s, i, cur, acc) ==
    IF i > Len(s) THEN (IF cur = <<>> THEN acc ELSE Append(acc, cur))
    ELSE IF cur # <<>> /\ ~NoBreak(s, i - 1)
         THEN GraphemesFrom(s, i + 1, <<s[i]>>, Append(acc, cur))
         ELSE GraphemesFrom(s, i + 1, Append(cur, s[i]), acc)

\* s[..].graphemes(true): the sequence of clusters, each a sequence of code points
Graphemes(s) == GraphemesFrom(s, 1, <<>>, <<>>)

\* Iterator::collect::<String>() over clusters
RECURSIVE Collect(_)
Collect(gs) == IF gs = <<>> THEN <<>> ELSE Head(gs) \o Collect(Tail(gs))

\* Iterator::take(n) and Iterator::skip(n)
Take(gs, n) == SubSeq(gs, 1, IF n < Len(gs) THEN n ELSE Len(gs))
Skip(gs, n) == SubSeq(gs, n + 1, Len(gs))

\* str::len(): the length in bytes
RECURSIVE ByteLen(_)
ByteLen(s) == IF s = <<>> THEN 0 ELSE Utf8Width(Head(s)) + ByteLen(Tail(s))

---------------------------------------------------------------------------
(* Row (src/src/row.rs)                                                    *)

\* Row::default()
RowDefault == [string |-> <<>>, len |-> 0]

\* a variant of update_len that counts code points instead of clusters
update_len_chars(row) == [row EXCEPT !.len = Len(row.string)]

update_len(row) == [row EXCEPT !.len = Len(Graphemes(row.string))]

\* impl From<&str> for Row
RowFrom(slice) == update_len([string |-> slice, len |-> 0])

\* char::is_ascii_digit
IsAsciiDigit(c) == c \in {"0", "1", "2", "3", "4", "5", "6", "7", "8", "9"}

\* cmp::min
Min(a, b) == IF a < b THEN a ELSE b

\* Row::render.  The result is a sequence of code points in which "SP" is
\* the space, "FgRgb" stands for the escape sequence that
\* termion::color::Fg(color::Rgb(220, 163, 163)) displays and "FgReset" for
\* the one of color::Fg(color::Reset).
RowRender(row, start, end) ==
    LET end1 == Min(end, ByteLen(row.string))
        start1 == Min(start, end1)
        taken == Take(Skip(Graphemes(row.string), start1), end1 - start1)
    IN  Collect([k \in 1..Len(taken) |->
                    LET c == taken[k][1]
                    IN  IF c = "TAB" THEN <<"SP">>
                        ELSE IF IsAsciiDigit(c) THEN <<"FgRgb", c, "FgReset">>
                        ELSE <<>>])

\* a variant of RowInsert that cuts at the code point index `at`
RowInsertAtCodePoint(row, at, c) ==
    IF at >= row.len
    THEN update_len([row EXCEPT !.string = Append(row.string, c)])
    ELSE update_len([row EXCEPT !.string =
             Append(SubSeq(row.string, 1, at), c)
                 \o SubSeq(row.string, at + 1, Len(row.string))])

RowInsert(row, at, c) ==
    IF at >= row.len
    THEN update_len([row EXCEPT !.string = Append(row.string, c)])
    ELSE LET g == Graphemes(row.string)
             result == Collect(Take(g, at))
             remainder == Collect(Skip(g, at))
         IN  update_len([row EXCEPT !.string = Append(result, c) \o remainder])

\* a variant of RowDelete whose remainder skips `at` clusters instead of at + 1
RowDeleteSkipAt(row, at) ==
    IF at >= row.len
    THEN row
    ELSE LET g == Graphemes(row.string)
         IN  update_len([row EXCEPT !.string =
                 Collect(Take(g, at)) \o Collect(Skip(g, at))])

\* a variant of RowDelete that clamps an index past the end to the last cluster
RowDeleteClamped(row, at) ==
    IF row.len = 0
    THEN row
    ELSE LET g == Graphemes(row.string)
             i == IF at >= row.len THEN row.len - 1 ELSE at
         IN  update_len([row EXCEPT !.string =
                 Collect(Take(g, i)) \o Collect(Skip(g, i + 1))])

RowDelete(row, at) ==
    IF at >= row.len
    THEN row
    ELSE LET g == Graphemes(row.string)
             result == Collect(Take(g, at))
             remainder == Collect(Skip(g, at + 1))
         IN  update_len([row EXCEPT !.string = result \o remainder])

RowAppend(row, new) ==
    update_len([row EXCEPT !.string = row.string \o new.string])

\* Row::split: the loop over the enumerated clusters; the result is
\* <<self after the call, the returned row>>
RECURSIVE SplitLoop(_, _, _, _)
SplitLoop(g, index, at, acc) ==
    IF index >= Len(g) THEN acc
    ELSE LET grapheme == g[index + 1]
         IN  IF index < at
             THEN SplitLoop(g, index + 1, at,
                     [acc EXCEPT !.length = @ + 1, !.row = @ \o grapheme])
             ELSE SplitLoop(g, index + 1, at,
                     [acc EXCEPT !.splitted_length = @ + 1,
                                 !.splitted_row = @ \o grapheme])

\* a variant of RowSplit that keeps cluster `at` in the prefix (index <= at)
RowSplitInclusive(row, at) ==
    LET acc == SplitLoop(Graphemes(row.string), 0, at + 1,
                   [row |-> <<>>, length |-> 0,
                    splitted_row |-> <<>>, splitted_length |-> 0])
    IN  << [string |-> acc.row, len |-> acc.length],
           [string |-> acc.splitted_row, len |-> acc.splitted_length] >>

RowSplit(row, at) ==
    LET acc == SplitLoop(Graphemes(row.string), 0, at,
                   [row |-> <<>>, length |-> 0,
                    splitted_row |-> <<>>, splitted_length |-> 0])
    IN  << [string |-> acc.row, len |-> acc.length],
           [string |-> acc.splitted_row, len |-> acc.splitted_length] >>

\* Option<T>: None is <<>>, Some(v) is <<v>>
None == <<>>
Some(v) == <<v>>

\* byte offset of the code point offset n of s
ByteOffset(s, n) == ByteLen(SubSeq(s, 1, n))

\* code point offsets at which q occurs in s
Matches(s, q) ==
    {n \in 0..(Len(s) - Len(q)) : SubSeq(s, n + 1, n + Len(q)) = q}

\* str::find and str::rfind: the byte index of the first / last occurrence
StrFind(s, q) ==
    LET m == Matches(s, q)
    IN  IF m = {} THEN None
        ELSE Some(ByteOffset(s, CHOOSE n \in m : \A k \in m : n <= k))

StrRFind(s, q) ==
    LET m == Matches(s, q)
    IN  IF m = {} THEN None
        ELSE Some(ByteOffset(s, CHOOSE n \in m : \A k \in m : n >= k))

\* str::grapheme_indices(true): the byte index of the start of every cluster
GraphemeIndices(s) ==
    LET g == Graphemes(s)
    IN  [k \in 1..Len(g) |-> ByteLen(Collect(SubSeq(g, 1, k - 1)))]

\* a variant of RowFind that maps a match the scan does not reach to the
\* start of the slice
RowFindStart(row, query, at, direction) ==
    IF at > row.len THEN None
    ELSE LET start == IF direction = "Forward" THEN at ELSE 0
             end == IF direction = "Forward" THEN row.len ELSE at
             substring == Collect(Take(Skip(Graphemes(row.string), start), end - start))
             matching_byte_index ==
                 IF direction = "Forward"
                 THEN StrFind(substring, query)
                 ELSE StrRFind(substring, query)
         IN  IF matching_byte_index = None THEN None ELSE Some(start)

RowFind(row, query, at, direction) ==
    IF at > row.len THEN None
    ELSE LET start == IF direction = "Forward" THEN at ELSE 0
             end == IF direction = "Forward" THEN row.len ELSE at
             substring == Collect(Take(Skip(Graphemes(row.string), start), end - start))
             matching_byte_index ==
                 IF direction = "Forward"
                 THEN StrFind(substring, query)
                 ELSE StrRFind(substring, query)
             indices == GraphemeIndices(substring)
             hits == IF matching_byte_index = None THEN {}
                     ELSE {k \in 1..Len(indices) : indices[k] = matching_byte_index[1]}
         IN  IF hits = {} THEN None
             ELSE Some(start + (CHOOSE k \in hits : TRUE) - 1)

---------------------------------------------------------------------------
(* Document (src/src/document.rs).  A document value is the record         *)
(* [rows, file_name, dirty]; a Position is [x, y].                         *)

\* Vec::insert(index, element) and Vec::remove(index), 0-based
VecInsert(v, index, e) == SubSeq(v, 1, index) \o <<e>> \o SubSeq(v, index + 1, Len(v))
VecRemove(v, index) == SubSeq(v, 1, index) \o SubSeq(v, index + 2, Len(v))

\* Document::default()
DocumentDefault == [rows |-> <<>>, file_name |-> None, dirty |-> FALSE]

\* a variant of insert_newline that puts the new row in front of the split row
insert_newline_before(rs, at) ==
    IF at.y = Len(rs) THEN rs
    ELSE LET sp == RowSplit(rs[at.y + 1], at.x)
         IN  VecInsert([rs EXCEPT ![at.y + 1] = sp[1]], at.y, sp[2])

\* Document::insert_newline, on the row sequence
insert_newline(rs, at) ==
    IF at.y = Len(rs) THEN rs
    ELSE IF at.y = Len(rs) THEN Append(rs, RowDefault)
    ELSE LET sp == RowSplit(rs[at.y + 1], at.x)
         IN  VecInsert([rs EXCEPT ![at.y + 1] = sp[1]], at.y + 1, sp[2])

\* a variant of DocumentInsert that stores the newline in the row
DocumentInsertRaw(d, at, c) ==
    IF at.y > Len(d.rows) THEN d
    ELSE IF at.y = Len(d.rows)
         THEN [d EXCEPT !.dirty = TRUE,
                        !.rows = Append(d.rows, RowInsert(RowDefault, 0, c))]
         ELSE [d EXCEPT !.dirty = TRUE,
                        !.rows[at.y + 1] = RowInsert(d.rows[at.y + 1], at.x, c)]

\* a variant of DocumentInsert that pads the document with empty rows up to
\* an out-of-range row instead of ignoring the call
DocumentInsertFill(d, at, c) ==
    LET filled == d.rows \o [k \in 1..(at.y - Len(d.rows)) |-> RowDefault]
    IN  IF c = "LF"
        THEN [d EXCEPT !.dirty = TRUE, !.rows = insert_newline(filled, at)]
        ELSE IF at.y >= Len(d.rows)
        THEN [d EXCEPT !.dirty = TRUE,
                       !.rows = Append(filled, RowInsert(RowDefault, 0, c))]
        ELSE [d EXCEPT !.dirty = TRUE,
                       !.rows[at.y + 1] = RowInsert(d.rows[at.y + 1], at.x, c)]

DocumentInsert(d, at, c) ==
    IF at.y > Len(d.rows) THEN d
    ELSE IF c = "LF"
         THEN [d EXCEPT !.dirty = TRUE, !.rows = insert_newline(d.rows, at)]
    ELSE IF at.y = Len(d.rows)
         THEN [d EXCEPT !.dirty = TRUE,
                        !.rows = Append(d.rows, RowInsert(RowDefault, 0, c))]
         ELSE [d EXCEPT !.dirty = TRUE,
                        !.rows[at.y + 1] = RowInsert(d.rows[at.y + 1], at.x, c)]

\* a variant of DocumentDelete that appends the next row without removing it
DocumentDeleteKeepNext(d, at) ==
    LET len == Len(d.rows)
    IN  IF at.y >= len THEN d
        ELSE IF at.x = d.rows[at.y + 1].len /\ at.y < len - 1
             THEN [d EXCEPT !.dirty = TRUE,
                      !.rows[at.y + 1] = RowAppend(d.rows[at.y + 1], d.rows[at.y + 2])]
             ELSE [d EXCEPT !.dirty = TRUE,
                      !.rows[at.y + 1] = RowDelete(d.rows[at.y + 1], at.x)]

DocumentDelete(d, at) ==
    LET len == Len(d.rows)
    IN  IF at.y >= len THEN d
        ELSE IF at.x = d.rows[at.y + 1].len /\ at.y < len - 1
             THEN LET next_row == d.rows[at.y + 2]
                      removed == VecRemove(d.rows, at.y + 1)
                  IN  [d EXCEPT !.dirty = TRUE,
                          !.rows = [removed EXCEPT ![at.y + 1] =
                                       RowAppend(removed[at.y + 1], next_row)]]
             ELSE [d EXCEPT !.dirty = TRUE,
                      !.rows[at.y + 1] = RowDelete(d.rows[at.y + 1], at.x)]

\* usize::saturating_sub(1)
SaturatingPred(n) == IF n = 0 THEN 0 ELSE n - 1

\* the loop of Document::find: n iterations are left
RECURSIVE FindLoop(_, _, _, _, _)
FindLoop(rs, query, position, direction, n) ==
    IF n = 0 THEN None
    ELSE IF position.y < Len(rs)
    THEN LET x == RowFind(rs[position.y + 1], query, position.x, direction)
         IN  IF x # None THEN Some([x |-> x[1], y |-> position.y])
             ELSE IF direction = "Forward"
             THEN FindLoop(rs, query, [x |-> 0, y |-> position.y + 1], direction, n - 1)
             ELSE LET y == SaturatingPred(position.y)
                  IN  FindLoop(rs, query, [x |-> rs[y + 1].len, y |-> y],
                               direction, n - 1)
    ELSE None

DocumentFind(rs, query, at, direction) ==
    IF at.y >= Len(rs) THEN None
    ELSE LET start == IF direction = "Forward" THEN at.y ELSE 0
             end == IF direction = "Forward" THEN Len(rs) ELSE at.y + 1
         IN  FindLoop(rs, query, [x |-> at.x, y |-> at.y], direction, end - start)

---------------------------------------------------------------------------
(* The file at the document's path: a sequence of bytes.  A byte is the    *)
(* pair <<code point, k>>: the k-th byte of that code point's encoding.    *)

\* String::as_bytes: the UTF-8 encoding
Utf8Encode(s) ==
    Collect([k \in 1..Len(s) |-> [j \in 1..Utf8Width(s[k]) |-> <<s[k], j>>]])

\* String::from_utf8 as fs::read_to_string applies it: None for bytes that
\* are not the encoding of a string
RECURSIVE Utf8Decode(_)
Utf8Decode(b) ==
    IF b = <<>> THEN Some(<<>>)
    ELSE LET c == b[1][1]
             w == Utf8Width(c)
         IN  IF Len(b) >= w /\ \A j \in 1..w : b[j] = <<c, j>>
             THEN LET rest == Utf8Decode(SubSeq(b, w + 1, Len(b)))
                  IN  IF rest = None THEN None ELSE Some(<<c>> \o rest[1])
             ELSE None

\* str::lines: lines end at LF or CR LF, the terminator is dropped, and the
\* last line need not have one
RECURSIVE Lines(_)
Lines(s) ==
    IF s = <<>> THEN <<>>
    ELSE IF \E n \in 1..Len(s) : s[n] = "LF"
    THEN LET n == CHOOSE n \in 1..Len(s) :
                      s[n] = "LF" /\ \A k \in 1..(n - 1) : s[k] # "LF"
             line == SubSeq(s, 1, n - 1)
             stripped == IF line # <<>> /\ line[Len(line)] = "CR"
                         THEN SubSeq(line, 1, Len(line) - 1)
                         ELSE line
         IN  <<stripped>> \o Lines(SubSeq(s, n + 1, Len(s)))
    ELSE <<s>>

\* the document Document::open builds from the lines of the file
Opened(lines) ==
    [rows |-> [k \in 1..Len(lines) |-> RowFrom(lines[k])],
     file_name |-> Some("f"), dirty |-> FALSE]

\* Document::open: Err (None) when the file is absent or is not UTF-8
DocumentOpen(file) ==
    IF file = None THEN None
    ELSE LET contents == Utf8Decode(file[1])
         IN  IF contents = None THEN None
             ELSE Some(Opened(Lines(contents[1])))

\* a variant of SaveWrites that ends every row with CR LF
SaveWritesCrLf(rs) ==
    [k \in 1..(2 * Len(rs)) |->
        IF k % 2 = 1 THEN Utf8Encode(rs[(k + 1) \div 2].string)
        ELSE Utf8Encode(<<"CR", "LF">>)]

\* the write_all calls of Document::save, in order
SaveWrites(rs) ==
    [k \in 1..(2 * Len(rs)) |->
        IF k % 2 = 1 THEN Utf8Encode(rs[(k + 1) \div 2].string)
        ELSE Utf8Encode(<<"LF">>)]

\* a variant of DocumentSave that writes no newline after the last row
DocumentSaveJoin(d, file, fail_at) ==
    IF d.file_name = None THEN [doc |-> d, file |-> file, ret |-> "Ok"]
    ELSE IF fail_at = 1 THEN [doc |-> d, file |-> file, ret |-> "Err"]
    ELSE LET writes == SaveWrites(d.rows)
         IN  IF fail_at = 0
             THEN [doc |-> [d EXCEPT !.dirty = FALSE],
                   file |-> Some(Collect(SubSeq(writes, 1, Len(writes) - 1))),
                   ret |-> "Ok"]
             ELSE [doc |-> d,
                   file |-> Some(Collect(SubSeq(writes, 1, fail_at - 2))),
                   ret |-> "Err"]

\* a variant of DocumentSave that clears the dirty flag before it writes
DocumentSaveClearsFirst(d, file, fail_at) ==
    IF d.file_name = None THEN [doc |-> d, file |-> file, ret |-> "Ok"]
    ELSE IF fail_at = 1 THEN [doc |-> d, file |-> file, ret |-> "Err"]
    ELSE LET writes == SaveWrites(d.rows)
         IN  IF fail_at = 0
             THEN [doc |-> [d EXCEPT !.dirty = FALSE],
                   file |-> Some(Collect(writes)),
                   ret |-> "Ok"]
             ELSE [doc |-> [d EXCEPT !.dirty = FALSE],
                   file |-> Some(Collect(SubSeq(writes, 1, fail_at - 2))),
                   ret |-> "Err"]

\* a variant of DocumentSave that resets the dirty flag outside the
\* `if let Some(file_name)` block, so that a save without a path cleans too
DocumentSaveResetsOutside(d, file, fail_at) ==
    IF d.file_name = None
    THEN [doc |-> [d EXCEPT !.dirty = FALSE], file |-> file, ret |-> "Ok"]
    ELSE IF fail_at = 1 THEN [doc |-> d, file |-> file, ret |-> "Err"]
    ELSE LET writes == SaveWrites(d.rows)
         IN  IF fail_at = 0
             THEN [doc |-> [d EXCEPT !.dirty = FALSE],
                   file |-> Some(Collect(writes)),
                   ret |-> "Ok"]
             ELSE [doc |-> d,
                   file |-> Some(Collect(SubSeq(writes, 1, fail_at - 2))),
                   ret |-> "Err"]

\* a variant of DocumentSave that drops the result of every write_all: a
\* failed write is skipped, the later ones are still made, and the call
\* returns success
DocumentSaveIgnoresErrors(d, file, fail_at) ==
    IF d.file_name = None THEN [doc |-> d, file |-> file, ret |-> "Ok"]
    ELSE IF fail_at = 1 THEN [doc |-> d, file |-> file, ret |-> "Err"]
    ELSE LET writes == SaveWrites(d.rows)
             kept == [k \in 1..Len(writes) |->
                         IF k = fail_at - 1 THEN <<>> ELSE writes[k]]
         IN  [doc |-> [d EXCEPT !.dirty = FALSE],
              file |-> Some(Collect(kept)),
              ret |-> "Ok"]

\* Document::save.  fail_at names the I/O call that fails: 0 for none, 1 for
\* File::create, k + 1 for the k-th write_all (which then writes nothing).
DocumentSave(d, file, fail_at) ==
    IF d.file_name = None THEN [doc |-> d, file |-> file, ret |-> "Ok"]
    ELSE IF fail_at = 1 THEN [doc |-> d, file |-> file, ret |-> "Err"]
    ELSE LET writes == SaveWrites(d.rows)
         IN  IF fail_at = 0
             THEN [doc |-> [d EXCEPT !.dirty = FALSE],
                   file |-> Some(Collect(writes)),
                   ret |-> "Ok"]
             ELSE [doc |-> d,
                   file |-> Some(Collect(SubSeq(writes, 1, fail_at - 2))),
                   ret |-> "Err"]

---------------------------------------------------------------------------
(* SpecRow: two Row objects built by Row::from and then edited by any      *)
(* sequence of insert, delete, split and append calls.  r[i] is the        *)
(* receiver; a split stores the returned row in the other slot, an append  *)
(* takes the other slot as its argument.                                   *)

RowChars == {"a", "Z", "W", "CR"}

RECURSIVE StringsUpTo(_, _)
StringsUpTo(chars, n) ==
    IF n = 0 THEN {<<>>}
    ELSE LET shorter == StringsUpTo(chars, n - 1)
         IN  shorter \cup {Append(s, c) : s \in {t \in shorter : Len(t) = n - 1},
                                            c \in chars}

RowTotal(rr) == Len(rr[1].string) + Len(rr[2].string)

NoDocument ==
    /\ rows = <<>>
    /\ file_name = <<>>
    /\ dirty = FALSE
    /\ disk = <<>>

RowCall(op, i, at, c) ==
    [op |-> op, i |-> i, at |-> at, c |-> c, pre |-> r]

InitRow ==
    /\ \E s1 \in StringsUpTo(RowChars, MaxLen) :
       \E s2 \in StringsUpTo(RowChars, MaxLen - Len(s1)) :
           r = <<RowFrom(s1), RowFrom(s2)>>
    /\ call = [op |-> "from", i |-> 0, at |-> 0, c |-> "", pre |-> <<>>]
    /\ NoDocument

DoRowInsert(i) ==
    /\ RowTotal(r) < MaxLen
    /\ \E at \in 0..(r[i].len + 1), c \in RowChars :
          /\ r' = [r EXCEPT ![i] = RowInsert(r[i], at, c)]
          /\ call' = RowCall("insert", i, at, c)
    /\ UNCHANGED <<rows, file_name, dirty, disk>>

DoRowDelete(i) ==
    /\ \E at \in 0..(r[i].len + 1) :
          /\ r' = [r EXCEPT ![i] = RowDelete(r[i], at)]
          /\ call' = RowCall("delete", i, at, "")
    /\ UNCHANGED <<rows, file_name, dirty, disk>>

DoRowSplit(i) ==
    /\ \E at \in 0..(r[i].len + 1) :
          /\ r' = [r EXCEPT ![i] = RowSplit(r[i], at)[1],
                            ![3 - i] = RowSplit(r[i], at)[2]]
          /\ call' = RowCall("split", i, at, "")
    /\ UNCHANGED <<rows, file_name, dirty, disk>>

DoRowAppend(i) ==
    /\ RowTotal(r) + Len(r[3 - i].string) <= MaxLen
    /\ r' = [r EXCEPT ![i] = RowAppend(r[i], r[3 - i])]
    /\ call' = RowCall("append", i, 0, "")
    /\ UNCHANGED <<rows, file_name, dirty, disk>>

NextRow ==
    \E i \in 1..2 :
        \/ DoRowInsert(i)
        \/ DoRowDelete(i)
        \/ DoRowSplit(i)
        \/ DoRowAppend(i)

SpecRow == InitRow /\ [][NextRow]_vars

---------------------------------------------------------------------------
(* Claims about Row, checked under SpecRow.                                *)

\* the receiver of the last call, before and after it
Self == r[call.i]
PreSelf == call.pre[call.i]
PreGraphemes == Graphemes(PreSelf.string)

\* C1: after any sequence of Row::from, insert, delete, split and append
\* calls, on the row itself and on the row returned by split, len() equals
\* the number of grapheme clusters of the row's stored text.
C1_LenIsGraphemeCount ==
    \A i \in 1..2 : r[i].len = Len(Graphemes(r[i].string))

\* a split has just returned and left a row with a multi-code-point cluster
C1_Witness ==
    /\ call.op = "split"
    /\ \E i \in 1..2 : r[i].len >= 1 /\ r[i].len < Len(r[i].string)

\* C8 as stated: for any row, any character c and any i in [0, len()],
\* insert(i, c) followed by delete(i) restores the text and len().
C8_Original ==
    (call.op = "insert" /\ call.at <= PreSelf.len)
        => RowDelete(Self, call.at) = PreSelf

\* the inserted character is a cluster of its own at index `at`, between the
\* unchanged clusters of the original text
InsertedAlone ==
    Graphemes(Self.string) =
        Take(PreGraphemes, call.at) \o << <<call.c>> >> \o Skip(PreGraphemes, call.at)

\* C8 (amended): when the inserted character forms a grapheme cluster of its
\* own at index i and the clusters around it are those of the original text,
\* insert(i, c) followed by delete(i) restores the text and len().
C8_InsertDeleteRestores ==
    (call.op = "insert" /\ call.at <= PreSelf.len /\ InsertedAlone)
        => RowDelete(Self, call.at) = PreSelf

\* a character was inserted in front of a multi-code-point cluster
C8_Witness ==
    /\ call.op = "insert"
    /\ call.at < PreSelf.len
    /\ InsertedAlone
    /\ Len(PreGraphemes[call.at + 1]) > 1

\* C9: for any at in [0, len()], split(at) leaves clusters [0, at) in the
\* row and returns clusters [at, len); appending the returned row onto the
\* prefix gives back the original text and the original len().
C9_SplitAppendRestores ==
    (call.op = "split" /\ call.at <= PreSelf.len)
        => /\ Graphemes(Self.string) = Take(PreGraphemes, call.at)
           /\ Graphemes(r[3 - call.i].string) = Skip(PreGraphemes, call.at)
           /\ RowAppend(Self, r[3 - call.i]) = PreSelf

\* a row with a multi-code-point cluster was split strictly inside
C9_Witness ==
    /\ call.op = "split"
    /\ 0 < call.at /\ call.at < PreSelf.len
    /\ PreSelf.len < Len(PreSelf.string)

\* the text of a sequence of clusters with cluster k (0-based) left out
WithoutCluster(g, k) ==
    Collect([n \in 1..(Len(g) - 1) |-> IF n <= k THEN g[n] ELSE g[n + 1]])

\* s with c put at code point offset n
PutAt(s, n, c) == Append(SubSeq(s, 1, n), c) \o SubSeq(s, n + 1, Len(s))

\* code point offsets of s at which a cluster of s starts or s ends
Boundaries(s) == {Len(Collect(Take(Graphemes(s), k))) : k \in 0..Len(Graphemes(s))}

\* delete, insert and split cut only at cluster boundaries of the original text
CutsAtBoundaries ==
    /\ (call.op = "delete" /\ call.at < PreSelf.len)
          => Self.string = WithoutCluster(PreGraphemes, call.at)
    /\ call.op = "insert"
          => \E n \in Boundaries(PreSelf.string) :
                 Self.string = PutAt(PreSelf.string, n, call.c)
    /\ call.op = "split"
          => /\ Self.string \o r[3 - call.i].string = PreSelf.string
             /\ Len(Self.string) \in Boundaries(PreSelf.string)

\* C10 as stated: delete(at) with at < len() removes exactly cluster at and
\* lowers len() by exactly one; insert and split never cut inside a cluster.
C10_Original ==
    /\ CutsAtBoundaries
    /\ (call.op = "delete" /\ call.at < PreSelf.len)
          => Self.len = PreSelf.len - 1

\* C10 (amended): delete(at) with at < len() removes exactly the code points
\* of cluster at and leaves the others unchanged and in order; len() is then
\* the cluster count of the remaining text, lower by one or more (the
\* neighbours of the removed cluster may join); insert and split never cut
\* inside a cluster.
C10_ClustersIndivisible ==
    /\ CutsAtBoundaries
    /\ (call.op = "delete" /\ call.at < PreSelf.len)
          => /\ Self.len <= PreSelf.len - 1
             /\ Self.len = Len(Graphemes(Self.string))

\* a multi-code-point cluster was deleted whole from a row of several clusters
C10_Witness ==
    /\ call.op = "delete"
    /\ call.at < PreSelf.len /\ PreSelf.len >= 2
    /\ Len(PreGraphemes[call.at + 1]) > 1
    /\ Self.string = WithoutCluster(PreGraphemes, call.at)

---------------------------------------------------------------------------
(* SpecFind: Document::find applied to a document as Document::open        *)
(* builds it (one Row::from per line).  find takes &self and changes       *)
(* nothing, so one call per document shows every result.                   *)

FindChars == {"a", "Z", "W", "G"}

\* the sequences of at most n strings with at most c code points together
RECURSIVE TextsUpTo(_, _, _)
TextsUpTo(chars, n, c) ==
    IF n = 0 THEN {<<>>}
    ELSE {<<>>} \cup
         UNION {{<<s>> \o rest : rest \in TextsUpTo(chars, n - 1, c - Len(s))}
                    : s \in StringsUpTo(chars, c)}

InitFind ==
    /\ \E lines \in TextsUpTo(FindChars, FindMaxRows, FindMaxChars) :
          /\ rows = Opened(lines).rows
          /\ file_name = Opened(lines).file_name
          /\ dirty = Opened(lines).dirty
    /\ disk = None
    /\ r = <<>>
    /\ call = [op |-> "open"]

DoFind ==
    /\ call.op = "open"
    /\ \E query \in StringsUpTo(FindChars, FindMaxQuery),
          y \in 0..Len(rows),
          x \in 0..(FindMaxChars + 1),
          direction \in {"Forward", "Backward"} :
          /\ y < Len(rows) => x <= rows[y + 1].len + 1
          /\ y = Len(rows) => x = 0
          /\ call' = [op |-> "find", query |-> query, at |-> [x |-> x, y |-> y],
                      direction |-> direction,
                      ret |-> DocumentFind(rows, query, [x |-> x, y |-> y], direction)]
    /\ UNCHANGED <<r, rows, file_name, dirty, disk>>

NextFind == DoFind

SpecFind == InitFind /\ [][NextFind]_vars

---------------------------------------------------------------------------
(* Claims about Document::find, checked under SpecFind.                    *)

\* code point offset of grapheme column col of a row
ColumnOffset(row, col) == Len(Collect(Take(Graphemes(row.string), col)))

\* the query occurs in the row's text starting at grapheme column col and
\* ending at or before grapheme column limit
OccursAt(row, query, col, limit) ==
    /\ col < row.len
    /\ ColumnOffset(row, col) + Len(query) <= ColumnOffset(row, limit)
    /\ SubSeq(row.string, ColumnOffset(row, col) + 1,
              ColumnOffset(row, col) + Len(query)) = query

\* the occurrences at or after position p, as positions
OccurrencesFrom(rs, query, p) ==
    {pos \in [x : 0..FindMaxChars + 1, y : 0..(Len(rs) - 1)] :
        /\ pos.y >= p.y
        /\ pos.y = p.y => pos.x >= p.x
        /\ OccursAt(rs[pos.y + 1], query, pos.x, rs[pos.y + 1].len)}

\* the occurrences that lie strictly before position p, as positions
OccurrencesBefore(rs, query, p) ==
    {pos \in [x : 0..FindMaxChars + 1, y : 0..(Len(rs) - 1)] :
        /\ pos.y <= p.y
        /\ OccursAt(rs[pos.y + 1], query, pos.x,
                    IF pos.y = p.y THEN p.x ELSE rs[pos.y + 1].len)}

\* (row, column) order
PosLeq(p, q) == p.y < q.y \/ (p.y = q.y /\ p.x <= q.x)

First(set) == IF set = {} THEN None
              ELSE Some(CHOOSE p \in set : \A q \in set : PosLeq(p, q))

Last(set) == IF set = {} THEN None
             ELSE Some(CHOOSE p \in set : \A q \in set : PosLeq(q, p))

\* C5: a Forward find from p with p.y < row count returns the first
\* occurrence of the query, in (row, column) order, that starts at a
\* grapheme column at or after p, and none when there is no such occurrence.
C5_ForwardFindsFirst ==
    (call.op = "find" /\ call.direction = "Forward" /\ call.at.y < Len(rows))
        => call.ret = First(OccurrencesFrom(rows, call.query, call.at))

\* C6: a Backward find from p with p.y < row count and p.x <= length of row
\* p.y returns the last occurrence of the query that lies strictly before p
\* (within [0, p.x) of row p.y, else the last one of the nearest earlier row
\* that has one), and none when there is no such occurrence.
C6_BackwardFindsLast ==
    (/\ call.op = "find" /\ call.direction = "Backward"
     /\ call.at.y < Len(rows)
     /\ call.at.x <= rows[call.at.y + 1].len)
        => call.ret = Last(OccurrencesBefore(rows, call.query, call.at))

---------------------------------------------------------------------------
(* Spec: one Document, from Document::default() on, under every call of    *)
(* its public surface, with the file at its path.                          *)

\* the characters typed (LF is the newline key) and the code points of the
\* file found on disk before the first save
DocChars == {"m", "CR", "LF"}
FileChars == {"m", "CR", "LF"}

Doc == [rows |-> rows, file_name |-> file_name, dirty |-> dirty]

Pre == [rows |-> rows, file_name |-> file_name, dirty |-> dirty, disk |-> disk]

TotalChars(rs) == Len(Collect([k \in 1..Len(rs) |-> rs[k].string]))

InBounds(d) == Len(d.rows) <= MaxRows /\ TotalChars(d.rows) <= MaxChars

SetDoc(d) ==
    /\ rows' = d.rows
    /\ file_name' = d.file_name
    /\ dirty' = d.dirty

\* the positions tried: every column up to one past the end of the row, and
\* every row up to one past the valid insertion row
Positions ==
    {p \in [x : 0..(MaxChars + 1), y : 0..(Len(rows) + 1)] :
        IF p.y < Len(rows) THEN p.x <= rows[p.y + 1].len + 1 ELSE p.x <= 1}

\* the files found on disk: none, the encoding of a short text, or bytes
\* that are not UTF-8
InitialFiles ==
    {None, Some(<< <<"m", 1>> >>)}
        \cup {Some(Utf8Encode(t)) : t \in StringsUpTo(FileChars, MaxFile)}

Init ==
    /\ rows = DocumentDefault.rows
    /\ file_name = DocumentDefault.file_name
    /\ dirty = DocumentDefault.dirty
    /\ disk \in InitialFiles
    /\ r = <<>>
    /\ call = [op |-> "default"]

\* Document::open(filename): on success the opened document replaces the
\* one in hand
DoOpen ==
    LET res == DocumentOpen(disk)
    IN  /\ IF res = None
           THEN UNCHANGED <<rows, file_name, dirty>>
           ELSE InBounds(res[1]) /\ SetDoc(res[1])
        /\ call' = [op |-> "open", ret |-> IF res = None THEN "Err" ELSE "Ok",
                    pre |-> Pre]
        /\ UNCHANGED <<r, disk>>

\* document.file_name = Some(name): the field is public
DoSetFileName ==
    /\ file_name = None
    /\ file_name' = Some("f")
    /\ call' = [op |-> "set_file_name", pre |-> Pre]
    /\ UNCHANGED <<r, rows, dirty, disk>>

DoInsert ==
    \E at \in Positions, c \in DocChars :
        /\ InBounds(DocumentInsert(Doc, at, c))
        /\ SetDoc(DocumentInsert(Doc, at, c))
        /\ call' = [op |-> "insert", at |-> at, c |-> c, pre |-> Pre]
        /\ UNCHANGED <<r, disk>>

DoDelete ==
    \E at \in Positions :
        /\ SetDoc(DocumentDelete(Doc, at))
        /\ call' = [op |-> "delete", at |-> at, pre |-> Pre]
        /\ UNCHANGED <<r, disk>>

DoSave ==
    \E fail_at \in 0..(2 * Len(rows) + 1) :
        LET res == DocumentSave(Doc, disk, fail_at)
        IN  /\ file_name = None => fail_at = 0
            /\ SetDoc(res.doc)
            /\ disk' = res.file
            /\ call' = [op |-> "save", fail_at |-> fail_at, ret |-> res.ret,
                        pre |-> Pre]
            /\ UNCHANGED r

\* Document::highlight(word): only the display annotations change
DoHighlight ==
    /\ call' = [op |-> "highlight", pre |-> Pre]
    /\ UNCHANGED <<r, rows, file_name, dirty, disk>>

\* Document::row(index), len(), is_empty(), is_dirty()
DoRow ==
    \E index \in 0..Len(rows) :
        /\ call' = [op |-> "row", index |-> index,
                    ret |-> IF index < Len(rows) THEN Some(rows[index + 1]) ELSE None,
                    pre |-> Pre]
        /\ UNCHANGED <<r, rows, file_name, dirty, disk>>

DoLen ==
    /\ call' = [op |-> "len", ret |-> Len(rows), pre |-> Pre]
    /\ UNCHANGED <<r, rows, file_name, dirty, disk>>

DoIsEmpty ==
    /\ call' = [op |-> "is_empty", ret |-> (rows = <<>>), pre |-> Pre]
    /\ UNCHANGED <<r, rows, file_name, dirty, disk>>

DoIsDirty ==
    /\ call' = [op |-> "is_dirty", ret |-> dirty, pre |-> Pre]
    /\ UNCHANGED <<r, rows, file_name, dirty, disk>>

DoDocFind ==
    \E at \in {p \in Positions : p.x = 0}, direction \in {"Forward", "Backward"} :
        /\ call' = [op |-> "find", query |-> <<"m">>, at |-> at,
                    direction |-> direction,
                    ret |-> DocumentFind(rows, <<"m">>, at, direction),
                    pre |-> Pre]
        /\ UNCHANGED <<r, rows, file_name, dirty, disk>>

Next ==
    \/ DoOpen
    \/ DoSetFileName
    \/ DoInsert
    \/ DoDelete
    \/ DoSave
    \/ DoHighlight
    \/ DoRow
    \/ DoLen
    \/ DoIsEmpty
    \/ DoIsDirty
    \/ DoDocFind

Spec == Init /\ [][Next]_vars

---------------------------------------------------------------------------
(* Claims about the whole Document, checked under Spec.                    *)

\* C2: the dirty flag is false after open and after default construction,
\* true after every insert with pos.y <= row count and every delete with
\* pos.y < row count, goes from true to false only in a save that returns
\* success, and is changed by no other operation (row, len, is_empty,
\* is_dirty, find, highlight, an ignored insert or delete, a failed save).
C2_DirtyStateMachine ==
    /\ call.op = "default" => ~dirty
    /\ (call.op = "open" /\ call.ret = "Ok") => ~dirty
    /\ (call.op = "insert" /\ call.at.y <= Len(call.pre.rows)) => dirty
    /\ (call.op = "delete" /\ call.at.y < Len(call.pre.rows)) => dirty
    /\ (call.op \notin {"default", "open"} /\ call.pre.dirty /\ ~dirty)
          => (call.op = "save" /\ call.ret = "Ok")
    /\ call.op \in {"row", "len", "is_empty", "is_dirty", "find", "highlight"}
          => dirty = call.pre.dirty
    /\ (call.op = "insert" /\ call.at.y > Len(call.pre.rows)) => dirty = call.pre.dirty
    /\ (call.op = "delete" /\ call.at.y >= Len(call.pre.rows)) => dirty = call.pre.dirty
    /\ (call.op = "save" /\ call.ret = "Err") => dirty = call.pre.dirty

\* a successful save has just cleaned a dirty document
C2_Witness ==
    /\ call.op = "save" /\ call.ret = "Ok"
    /\ call.pre.dirty /\ ~dirty
    /\ rows # <<>>

NoTerminators(rs) ==
    \A k \in 1..Len(rs) : \A j \in 1..Len(rs[k].string) :
        rs[k].string[j] \notin {"CR", "LF"}

\* C7: after a successful save of a document with a path whose rows hold no
\* line-terminator character, open of the same path gives a document with
\* the same rows in the same order and dirty = false.
C7_SaveOpenRoundTrip ==
    (/\ call.op = "save" /\ call.ret = "Ok"
     /\ file_name # None
     /\ NoTerminators(rows))
        => /\ DocumentOpen(disk) # None
           /\ DocumentOpen(disk)[1].rows = rows
           /\ DocumentOpen(disk)[1].dirty = FALSE

\* two non-empty rows have just been saved
C7_Witness ==
    /\ call.op = "save" /\ call.ret = "Ok"
    /\ file_name # None
    /\ NoTerminators(rows)
    /\ Len(rows) = 2
    /\ rows[1].len > 0 /\ rows[2].len > 0

---------------------------------------------------------------------------
(* SpecEdit: a document as Document::open or Document::default() leaves    *)
(* it, under any sequence of Document::insert and Document::delete calls.  *)

EditChars == {"a", "m", "LF"}

EditInBounds(d) ==
    Len(d.rows) <= EditMaxRows /\ TotalChars(d.rows) <= EditMaxChars

\* every column up to one past the end of the row, every row up to one past
\* the valid insertion row
EditPositions ==
    {p \in [x : 0..(EditMaxChars + 1), y : 0..(Len(rows) + 1)] :
        IF p.y < Len(rows) THEN p.x <= rows[p.y + 1].len + 1 ELSE p.x <= 1}

InitEdit ==
    /\ \/ \E lines \in TextsUpTo(EditChars \ {"LF"}, EditMaxRows, EditMaxChars) :
             /\ rows = Opened(lines).rows
             /\ file_name = Opened(lines).file_name
             /\ dirty = Opened(lines).dirty
             /\ call = [op |-> "open"]
       \/ /\ rows = DocumentDefault.rows
          /\ file_name = DocumentDefault.file_name
          /\ dirty = DocumentDefault.dirty
          /\ call = [op |-> "default"]
    /\ disk = None
    /\ r = <<>>

EditInsert ==
    \E at \in EditPositions, c \in EditChars :
        /\ EditInBounds(DocumentInsert(Doc, at, c))
        /\ SetDoc(DocumentInsert(Doc, at, c))
        /\ call' = [op |-> "insert", at |-> at, c |-> c, pre |-> Pre]
        /\ UNCHANGED <<r, disk>>

EditDelete ==
    \E at \in EditPositions :
        /\ SetDoc(DocumentDelete(Doc, at))
        /\ call' = [op |-> "delete", at |-> at, pre |-> Pre]
        /\ UNCHANGED <<r, disk>>

NextEdit == EditInsert \/ EditDelete

SpecEdit == InitEdit /\ [][NextEdit]_vars

---------------------------------------------------------------------------
(* Claims about Document::insert and Document::delete, checked under       *)
(* SpecEdit.                                                               *)

PreRows == call.pre.rows

\* rows k (1-based) in lo..hi of the old sequence are rows k + shift of the new one
SameRows(lo, hi, shift) ==
    \A k \in lo..hi : rows[k + shift] = PreRows[k]

\* C3: insert(pos, newline) with pos.y < row count leaves clusters
\* [0, pos.x) in row pos.y, puts clusters [pos.x, len) in a new row pos.y+1,
\* grows the row count by one, keeps every other row and its order, and
\* sets the dirty flag.
C3_NewlineSplitsRow ==
    (call.op = "insert" /\ call.c = "LF" /\ call.at.y < Len(PreRows))
        => LET y == call.at.y
               g == Graphemes(PreRows[y + 1].string)
           IN  /\ Len(rows) = Len(PreRows) + 1
               /\ Graphemes(rows[y + 1].string) = Take(g, call.at.x)
               /\ Graphemes(rows[y + 2].string) = Skip(g, call.at.x)
               /\ rows[y + 1].len = Len(Take(g, call.at.x))
               /\ rows[y + 2].len = Len(Skip(g, call.at.x))
               /\ SameRows(1, y, 0)
               /\ SameRows(y + 2, Len(PreRows), 1)
               /\ dirty

\* a row of a document of two rows was split strictly inside
C3_Witness ==
    /\ call.op = "insert" /\ call.c = "LF"
    /\ Len(PreRows) = 2
    /\ call.at.y < Len(PreRows)
    /\ 0 < call.at.x /\ call.at.x < PreRows[call.at.y + 1].len

\* C4: delete(pos) with pos.y < row count - 1 and pos.x = length of row
\* pos.y makes row pos.y the concatenation of the old rows pos.y and
\* pos.y + 1, removes the old row pos.y + 1 and keeps all other rows and
\* their order; any other delete with pos.y < row count keeps the row count
\* and changes no row but pos.y.
C4_DeleteMergesRows ==
    (call.op = "delete" /\ call.at.y < Len(PreRows))
        => LET y == call.at.y
           IN  IF y < Len(PreRows) - 1 /\ call.at.x = PreRows[y + 1].len
               THEN /\ Len(rows) = Len(PreRows) - 1
                    /\ rows[y + 1].string
                          = PreRows[y + 1].string \o PreRows[y + 2].string
                    /\ SameRows(1, y, 0)
                    /\ SameRows(y + 3, Len(PreRows), -1)
               ELSE /\ Len(rows) = Len(PreRows)
                    /\ SameRows(1, y, 0)
                    /\ SameRows(y + 2, Len(PreRows), 0)

\* the first of three rows was merged with the second
C4_Witness ==
    /\ call.op = "delete"
    /\ Len(PreRows) = 3 /\ Len(rows) = 2
    /\ call.at.y = 0
    /\ PreRows[1].len > 0 /\ PreRows[2].len > 0

\* C11: Document::insert with pos.y > row count and Document::delete with
\* pos.y >= row count return (they have no error value) and leave the row
\* sequence, every row's text and length, the file path and the dirty flag
\* as they were: no filler row is created.
C11_OutOfRangeRowsIgnored ==
    (\/ call.op = "insert" /\ call.at.y > Len(PreRows)
     \/ call.op = "delete" /\ call.at.y >= Len(PreRows))
        => /\ rows = PreRows
           /\ file_name = call.pre.file_name
           /\ dirty = call.pre.dirty

\* a character was typed one row past the insertion row of a clean document
\* that has rows
C11_Witness ==
    /\ call.op = "insert" /\ call.c # "LF"
    /\ call.at.y = Len(PreRows) + 1
    /\ Len(PreRows) >= 1
    /\ ~call.pre.dirty

---------------------------------------------------------------------------
(* SpecRender: Row::render applied to a row as Row::from builds it.        *)
(* render takes &self and changes nothing, so one call per row shows       *)
(* every result.  "1" is an ASCII digit.                                   *)

RenderChars == {"a", "1", "TAB", "m"}

InitRender ==
    /\ \E s \in StringsUpTo(RenderChars, RenderMaxLen) : r = <<RowFrom(s)>>
    /\ call = [op |-> "from"]
    /\ NoDocument

\* start and end range over every grapheme index, every byte index and one
\* past the byte length
DoRender ==
    /\ call.op = "from"
    /\ \E start \in 0..(2 * RenderMaxLen + 1), end \in 0..(2 * RenderMaxLen + 1) :
          call' = [op |-> "render", start |-> start, end |-> end,
                   ret |-> RowRender(r[1], start, end)]
    /\ UNCHANGED <<r, rows, file_name, dirty, disk>>

NextRender == DoRender

SpecRender == InitRender /\ [][NextRender]_vars

---------------------------------------------------------------------------
(* Claims about Row::render, checked under SpecRender.                     *)

\* the display form of one grapheme: a tab becomes one space, an ASCII digit
\* is wrapped in colour-on / colour-reset, anything else is unchanged
Displayed(grapheme) ==
    IF grapheme = <<"TAB">> THEN <<"SP">>
    ELSE IF Len(grapheme) = 1 /\ IsAsciiDigit(grapheme[1])
         THEN <<"FgRgb", grapheme[1], "FgReset">>
         ELSE grapheme

\* the display form of the graphemes [start', end') with end' = min(end,
\* len()) and start' = min(start, end')
DisplayOfRange(row, start, end) ==
    LET end1 == Min(end, row.len)
        start1 == Min(start, end1)
        g == SubSeq(Graphemes(row.string), start1 + 1, end1)
    IN  Collect([k \in 1..Len(g) |-> Displayed(g[k])])

\* C12: render(start, end) returns the display form of exactly the
\* graphemes in [start', end') where end' = min(end, len()) and start' =
\* min(start, end'): each tab becomes one space, each ASCII digit is wrapped
\* in its own colour-on / colour-reset pair, every other grapheme is
\* emitted unchanged, in order.
C12_RenderDisplaysRange ==
    call.op = "render" => call.ret = DisplayOfRange(r[1], call.start, call.end)

---------------------------------------------------------------------------
(* Claims about Document::save, checked under Spec.                        *)

\* the bytes of each row's text followed by one newline byte, in row order
RECURSIVE RowsWithNewlines(_)
RowsWithNewlines(rs) ==
    IF rs = <<>> THEN <<>>
    ELSE Utf8Encode(Append(Head(rs).string, "LF")) \o RowsWithNewlines(Tail(rs))

\* C13: a successful save of a document with a path leaves a file whose
\* content is the concatenation, in row order, of each row's text followed
\* by one newline, for every row including the last; the rows are unchanged.
C13_SaveWritesRows ==
    (call.op = "save" /\ call.ret = "Ok" /\ call.pre.file_name # None)
        => /\ disk = Some(RowsWithNewlines(call.pre.rows))
           /\ rows = call.pre.rows

\* a document of two rows whose last row is empty was saved over a
\* different file
C13_Witness ==
    /\ call.op = "save" /\ call.ret = "Ok"
    /\ call.pre.file_name # None
    /\ Len(rows) = 2
    /\ rows[1].len > 0 /\ rows[2].len = 0
    /\ disk # call.pre.disk

---------------------------------------------------------------------------
(* More claims about Document::insert and Document::delete, checked under  *)
(* SpecEdit.                                                               *)

\* C14: insert(pos, newline) with pos.y equal to the row count appends
\* exactly one empty row at the end (the row count grows by one, the new
\* last row has length 0) and leaves all existing rows unchanged.
C14_NewlineAtEndAppendsRow ==
    (call.op = "insert" /\ call.c = "LF" /\ call.at.y = Len(PreRows))
        => /\ Len(rows) = Len(PreRows) + 1
           /\ rows[Len(rows)] = RowDefault
           /\ SameRows(1, Len(PreRows), 0)

\* C15: an out-of-range column is clamped.  Row::insert(at, c) with
\* at >= len() gives the old text followed by c, and Row::delete(at) with
\* at >= len() leaves the text and len() unchanged, for every row of the
\* document and as called by Document::insert and Document::delete;
\* Document::insert of a character other than the newline with pos.y equal
\* to the row count appends a new row holding just that character; and
\* Document::delete with pos.x greater than the length of row pos.y leaves
\* every row and the row count unchanged.
C15_ColumnsClamped ==
    /\ \A k \in 1..Len(rows) : \A at \in rows[k].len..(rows[k].len + 1) :
          /\ \A c \in EditChars :
                RowInsert(rows[k], at, c).string = Append(rows[k].string, c)
          /\ RowDelete(rows[k], at) = rows[k]
    /\ (/\ call.op = "insert" /\ call.c # "LF"
        /\ call.at.y < Len(PreRows)
        /\ call.at.x >= PreRows[call.at.y + 1].len)
          => /\ rows[call.at.y + 1].string
                   = Append(PreRows[call.at.y + 1].string, call.c)
             /\ Len(rows) = Len(PreRows)
    /\ (call.op = "insert" /\ call.c # "LF" /\ call.at.y = Len(PreRows))
          => /\ Len(rows) = Len(PreRows) + 1
             /\ rows[Len(rows)].string = <<call.c>>
             /\ SameRows(1, Len(PreRows), 0)
    /\ (/\ call.op = "delete"
        /\ call.at.y < Len(PreRows)
        /\ call.at.x > PreRows[call.at.y + 1].len)
          => rows = PreRows

\* a delete one column past the end of a non-empty row that is not the last
C15_Witness ==
    /\ call.op = "delete"
    /\ call.at.y < Len(PreRows) - 1
    /\ PreRows[call.at.y + 1].len > 0
    /\ call.at.x > PreRows[call.at.y + 1].len

---------------------------------------------------------------------------
(* More claims about the whole Document, checked under Spec.               *)

\* C16: starting from a clean document (just opened, default-constructed or
\* just successfully saved), any insert or delete call that leaves the row
\* sequence and every row's text unchanged also leaves is_dirty() false.
C16_UnchangedStaysClean ==
    (/\ call.op \in {"insert", "delete"}
     /\ ~call.pre.dirty
     /\ rows = call.pre.rows)
        => ~dirty

\* C17: save() on a document with no file path returns success and changes
\* nothing: no file is written, and the rows, the absent path and the dirty
\* flag are as before, so a dirty document without a path is still dirty
\* after the save.
C17_SaveWithoutPathIsNoOp ==
    (call.op = "save" /\ call.pre.file_name = None)
        => /\ call.ret = "Ok"
           /\ disk = call.pre.disk
           /\ rows = call.pre.rows
           /\ file_name = None
           /\ dirty = call.pre.dirty

\* a dirty document with rows and no path was saved twice in a row
C17_Witness ==
    /\ call.op = "save" /\ call.pre.file_name = None
    /\ call.pre.dirty /\ rows # <<>>

\* C18: when File::create or any write_all fails during save(), the call
\* returns the error, makes no further write, and leaves the dirty flag,
\* the path, the row count and every row as they were: the file holds just
\* what was written before the failure (and is untouched if it could not
\* be created).
C18_FailedSaveKeepsState ==
    (call.op = "save" /\ call.fail_at # 0)
        => /\ call.ret = "Err"
           /\ dirty = call.pre.dirty
           /\ file_name = call.pre.file_name
           /\ rows = call.pre.rows
           /\ IF call.fail_at = 1
              THEN disk = call.pre.disk
              ELSE /\ disk # None
                   /\ Len(disk[1]) < Len(RowsWithNewlines(rows))
                   /\ disk[1] = SubSeq(RowsWithNewlines(rows), 1, Len(disk[1]))

\* the write of the second row's newline failed in a save of a dirty document
C18_Witness ==
    /\ call.op = "save" /\ call.ret = "Err"
    /\ call.fail_at = 5
    /\ call.pre.dirty
    /\ disk # None /\ disk[1] # <<>>

---------------------------------------------------------------------------
(* The index arithmetic of Document::insert, Document::delete and          *)
(* Document::find.  An access is the record [index, limit]: the call       *)
(* panics there unless index < limit.  v[i], Vec::remove(i) and            *)
(* Option::unwrap of v.get_mut(i) have limit v.len(); Vec::insert(i, _)    *)
(* has limit v.len() + 1; the subtraction a - b is the access              *)
(* [index |-> b, limit |-> a + 1].                                         *)

Access(index, limit) == [index |-> index, limit |-> limit]

\* insert_newline: rows[at.y] and rows.insert(at.y + 1, new_row)
InsertNewlineAccesses(rs, at) ==
    IF at.y = Len(rs) THEN {}
    ELSE {Access(at.y, Len(rs)), Access(at.y + 1, Len(rs) + 1)}

\* Document::insert: rows.get_mut(at.y).unwrap()
InsertAccesses(d, at, c) ==
    IF at.y > Len(d.rows) THEN {}
    ELSE IF c = "LF" THEN InsertNewlineAccesses(d.rows, at)
    ELSE IF at.y = Len(d.rows) THEN {}
    ELSE {Access(at.y, Len(d.rows))}

\* a variant of DeleteAccesses whose merge test is at.y <= len - 1
DeleteAccessesOffByOne(d, at) ==
    LET len == Len(d.rows)
    IN  IF at.y >= len THEN {}
        ELSE {Access(at.y, len)} \cup
             IF at.x = d.rows[at.y + 1].len
             THEN {Access(1, len + 1)} \cup
                  IF at.y <= len - 1
                  THEN {Access(at.y + 1, len), Access(at.y, len - 1)}
                  ELSE {Access(at.y, len)}
             ELSE {Access(at.y, len)}

\* Document::delete: rows.get_mut(at.y).unwrap(), len - 1,
\* rows.remove(at.y + 1) and rows.get_mut(at.y).unwrap() on the shorter
\* vector, or rows.get_mut(at.y).unwrap()
DeleteAccesses(d, at) ==
    LET len == Len(d.rows)
    IN  IF at.y >= len THEN {}
        ELSE {Access(at.y, len)} \cup
             IF at.x = d.rows[at.y + 1].len
             THEN {Access(1, len + 1)} \cup
                  IF at.y < len - 1
                  THEN {Access(at.y + 1, len), Access(at.y, len - 1)}
                  ELSE {Access(at.y, len)}
             ELSE {Access(at.y, len)}

\* Row::find: end - start
RowFindAccesses(row, at, direction) ==
    IF at > row.len THEN {}
    ELSE LET start == IF direction = "Forward" THEN at ELSE 0
             end == IF direction = "Forward" THEN row.len ELSE at
         IN  {Access(start, end + 1)}

\* the loop of Document::find: self.rows[position.y] after the step backward
RECURSIVE FindLoopAccesses(_, _, _, _, _)
FindLoopAccesses(rs, query, position, direction, n) ==
    IF n = 0 THEN {}
    ELSE IF position.y < Len(rs)
    THEN LET row == rs[position.y + 1]
             here == RowFindAccesses(row, position.x, direction)
         IN  IF RowFind(row, query, position.x, direction) # None THEN here
             ELSE IF direction = "Forward"
             THEN here \cup FindLoopAccesses(rs, query,
                                [x |-> 0, y |-> position.y + 1], direction, n - 1)
             ELSE LET y == SaturatingPred(position.y)
                  IN  here \cup {Access(y, Len(rs))} \cup
                      IF y < Len(rs)
                      THEN FindLoopAccesses(rs, query,
                               [x |-> rs[y + 1].len, y |-> y], direction, n - 1)
                      ELSE {}
    ELSE {}

\* Document::find
FindAccesses(rs, query, at, direction) ==
    IF at.y >= Len(rs) THEN {}
    ELSE LET start == IF direction = "Forward" THEN at.y ELSE 0
             end == IF direction = "Forward" THEN Len(rs) ELSE at.y + 1
         IN  {Access(start, end + 1)} \cup
             FindLoopAccesses(rs, query, [x |-> at.x, y |-> at.y], direction,
                              end - start)

---------------------------------------------------------------------------
(* SpecIndex: the documents of SpecEdit (opened or default-constructed,    *)
(* then edited by any sequence of insert and delete calls).  In each of    *)
(* them every insert, delete and find call is examined for the indices it  *)
(* would use; find changes nothing, so it needs no action of its own.      *)

SpecIndex == InitEdit /\ [][NextEdit]_vars

---------------------------------------------------------------------------
(* Claims about index safety, checked under SpecIndex.                     *)

\* the query searched for: rows with and without it are reachable
Query == <<"a">>

\* C19: for every reachable document, the empty one included, every
\* Position (columns up to one past the end of the row, where every
\* comparison with the row's length is settled, and rows up to one past the
\* insertion row) and both directions, no index used by insert, delete or find
\* is outside the row sequence and no subtraction underflows: rows[at.y]
\* in insert_newline, len - 1 and rows.remove(at.y + 1) in delete, and
\* rows[position.y] after the step backward in find are within
\* [0, row count).
C19_NoIndexOutOfRange ==
    \A at \in EditPositions :
        /\ \A c \in EditChars :
              \A a \in InsertAccesses(Doc, at, c) : a.index < a.limit
        /\ \A a \in DeleteAccesses(Doc, at) : a.index < a.limit
        /\ \A direction \in {"Forward", "Backward"} :
              \A a \in FindAccesses(rows, Query, at, direction) : a.index < a.limit

\* a delete at the end of the only row has left a document of one row
C19_Witness ==
    /\ call.op = "delete"
    /\ Len(PreRows) = 1 /\ call.at.y = 0
    /\ call.at.x = PreRows[1].len
    /\ Len(rows) = 1

---------------------------------------------------------------------------
(* A claim about the rows of every reachable document, checked under Spec. *)

\* C20: in every document reachable from open or the empty default by any
\* sequence of insert, delete and save calls, no row's text contains the
\* newline character.
C20_NoNewlineInRows ==
    \A k \in 1..Len(rows) : \A j \in 1..Len(rows[k].string) :
        rows[k].string[j] # "LF"

\* a newline was typed inside a document opened from a file that holds one
C20_Witness ==
    /\ call.op = "insert" /\ call.c = "LF"
    /\ Len(rows) = Len(call.pre.rows) + 1
    /\ disk # None
    /\ \E j \in 1..Len(disk[1]) : disk[1][j] = <<"LF", 1>>
    /\ file_name # None

=============================================================================
